---- MODULE Spec2Model ----
(***************************************************************************)
(* HazelJS: one Connection object (the reliable-datagram state machine),   *)
(* in the two variants the repository holds:                               *)
(*   "server"  the Connection of src/unnamed/part_000 lines 249-441        *)
(*             (hosted by Server, awaits a HELLO, has seenHello);          *)
(*   "client"  the Connection of src/src/server.ts lines 242-467           *)
(*             (used by Client, disconnect(forced, reason, message)).      *)
(* Buffers are sequences of bytes; buffer offset k is sequence index k+1.  *)
(* Every handler (a public call, a timer callback, the data sink) is one   *)
(* atomic action: Node runs each to completion on the event loop.          *)
(***************************************************************************)
EXTENDS Integers, Sequences, FiniteSets, TLC

VARIABLES
    variant,      \* "server" | "client": which Connection class this object is
    nonce,        \* Connection.nonce
    pendingAck,   \* Connection.pendingAck: nonce -> completion ("ping" or a send slot)
    pendingPings, \* Connection.pendingPings
    lastPings,    \* Connection.lastPings
    seenHello,    \* Connection.seenHello (server variant)
    pingTimer,    \* TRUE while the setInterval of pingTimer is active
    onceClose,    \* TRUE while the once('close') listener is still registered
    sends,        \* per sendReliable call: the closure state of its promise executor
    out,          \* datagrams handed to socket.send by the last handler, in order
    events,       \* application events emitted by the last handler, in order
    thrown,       \* TRUE iff the last handler ended by an exception
    op,           \* the last handler: "sendNormal", "sendReliable", "disconnect",
                  \* "retry", "ping", "data" or "sent" ("new" after construction)
    closeCount,   \* history: 'close' emissions so far: 0, 1, or 2 for two or more
    shut,         \* history: disconnect() has been called or 'close' has been emitted
    openAtClose,  \* history: slots whose promise was pending when 'close' was emitted
    copies,       \* history: per slot, datagrams handed to the socket for that send
    ackedEarly,   \* history: slots whose ACK reached the data sink before their first tick
    rcvd,         \* the DISCONNECT datagram the last handler was given (<< >> if it
                  \* handled anything else)
    dc,           \* the arguments of the disconnect() the last handler called, if any
    heard,        \* history: the inbound HELLO/RELIABLE datagrams of length >= 3, in order
    helloCount,   \* history: 'hello' emissions so far: 0, 1, or 2 for two or more
    wire,         \* per slot: socket.send callbacks run, the closure's bytes variable,
                  \* and the value and origin of what the promise resolved with
    bench,        \* the call under observation: its kind, its arguments and its results
                  \* ([kind |-> "none"] while nothing is observed)
    server,       \* Server: its connections map (key -> Connection) and whether its
                  \* socket is open
    client        \* Client: its connected flag, the slots of its connect() calls, the
                  \* events it emitted and whether its last call failed with an error

vars == << variant, nonce, pendingAck, pendingPings, lastPings, seenHello, pingTimer,
           onceClose, sends, out, events, thrown, op, closeCount, shut, openAtClose,
           copies, ackedEarly, rcvd, dc, heard, helloCount, wire, bench,
           server, client >>

-----------------------------------------------------------------------------
(* Bounds of the model *)

MaxSends == 2      \* sendReliable calls per run
MaxFairSends == 1  \* sendReliable calls per run of FairSpec
MaxPings == 1      \* PINGs sent per run of Spec and ClientSpec
MaxHeard == 2      \* inbound HELLO/RELIABLE datagrams per run of HelloSpec
MaxRttPings == 5   \* PINGs sent per run of RttSpec

-----------------------------------------------------------------------------
(* Program constants *)

NORMAL == 0
RELIABLE == 1
FRAGMENT == 5
HELLO == 8
DISCONNECT == 9
ACKNOWLEDGEMENT == 10
PING == 12
HAZEL_VERSION == 0

NonceModulus == 65535
MaxAttempts == 10
MaxPendingPings == 10
PingRingSize == 5

-----------------------------------------------------------------------------
(* Option values: <<>> is undefined, <<v>> is v *)

None == << >>
Some(v) == << v >>

Min(a, b) == IF a < b THEN a ELSE b

\* a RangeError thrown by a numeric read
RangeError == -1

-----------------------------------------------------------------------------
(* HazelBuffer / Buffer *)

Alloc(size) == [i \in 1..size |-> 0]

\* Buffer.copy / consecutive writeUInt8: bytes laid over buf from offset, clamped
WriteAt(buf, offset, bytes) ==
    [i \in 1..Len(buf) |->
        IF i - 1 >= offset /\ i - 1 < offset + Len(bytes)
        THEN bytes[i - offset] ELSE buf[i]]

\* Buffer.slice(begin, end): clamped to the buffer
Slice(buf, begin, end) ==
    LET b == Min(begin, Len(buf))
        e == Min(end, Len(buf))
    IN  IF e <= b THEN << >> ELSE [i \in 1..(e - b) |-> buf[b + i]]

UInt16BE(n) == << (n \div 256) % 256, n % 256 >>

\* readUInt16BE(offset): needs offset+1 inside the buffer
CanReadUInt16(buf, offset) == offset + 2 <= Len(buf)
ReadUInt16(buf, offset) == buf[offset + 1] * 256 + buf[offset + 2]

CanReadByte(buf, offset) == offset + 1 <= Len(buf)
ReadByte(buf, offset) == buf[offset + 1]
ReadBoolean(buf, offset) == buf[offset + 1] = 1
BoolByte(b) == IF b THEN 1 ELSE 0

\* writePackedUInt32: the bytes stored, least significant group first
RECURSIVE PackedBytes(_)
PackedBytes(int) ==
    IF int >= 128
    THEN << (int % 128) + 128 >> \o PackedBytes(int \div 128)
    ELSE << int >>

\* writePackedUInt32(int, offset): the buffer after the call, and the value returned
\* (cursor: the number of continuation bytes written before the last byte)
WritePackedUInt32(buf, int, offset) ==
    [buf |-> WriteAt(buf, offset, PackedBytes(int)),
     ret |-> Len(PackedBytes(int)) - 1]

GetPackedUInt32Size(int) ==
    IF int < 128 THEN 1
    ELSE IF int < 16384 THEN 2
    ELSE IF int < 2097152 THEN 3
    ELSE 4

\* readPackedUInt32(offset): the value, or RangeError
RECURSIVE ReadPackedFrom(_, _, _, _)
ReadPackedFrom(buf, cursor, shift, res) ==
    IF cursor >= Len(buf) \/ shift > 21 THEN RangeError
    ELSE LET byte == buf[cursor + 1]
             r == res + (byte % 128) * (2 ^ shift)
         IN  IF byte >= 128 THEN ReadPackedFrom(buf, cursor + 1, shift + 7, r)
             ELSE r

ReadPackedUInt32(buf, offset) == ReadPackedFrom(buf, offset, 0, 0)

\* readString(offset): [ok |-> FALSE] on a RangeError, else the bytes of the string
ReadString(buf, offset) ==
    LET len == ReadPackedUInt32(buf, offset)
    IN  IF len = RangeError THEN [ok |-> FALSE, str |-> << >>]
        ELSE LET read == GetPackedUInt32Size(len)
             IN  [ok |-> TRUE, str |-> Slice(buf, offset + read, offset + read + len)]

\* writeString(str, offset): the buffer after the call (str given as its UTF-8 bytes)
WriteString(buf, str, offset) ==
    LET w == WritePackedUInt32(buf, Len(str), offset)
    IN  [buf |-> WriteAt(w.buf, offset + w.ret, str),
         ret |-> w.ret + Len(str)]

\* readHazelMessage(offset): [tag, data], or RangeError
CanReadHazelMessage(buf, offset) ==
    CanReadUInt16(buf, offset) /\ CanReadByte(buf, offset + 2)
ReadHazelMessage(buf, offset) ==
    [tag |-> ReadByte(buf, offset + 2),
     data |-> Slice(buf, offset + 3, offset + 3 + ReadUInt16(buf, offset))]

\* writeHazelMessage(message, offset): the buffer after the call
WriteHazelMessage(buf, message, offset) ==
    WriteAt(buf, offset, UInt16BE(Len(message.data)) \o << message.tag >> \o message.data)

-----------------------------------------------------------------------------
(* The connection as one record, so that handlers compose as the methods do *)

Conn ==
    [variant |-> variant, nonce |-> nonce, pendingAck |-> pendingAck,
     pendingPings |-> pendingPings, lastPings |-> lastPings, seenHello |-> seenHello,
     pingTimer |-> pingTimer, onceClose |-> onceClose, sends |-> sends,
     out |-> out, events |-> events, thrown |-> thrown, op |-> op,
     closeCount |-> closeCount, shut |-> shut, openAtClose |-> openAtClose,
     copies |-> copies, ackedEarly |-> ackedEarly, rcvd |-> rcvd, dc |-> dc,
     heard |-> heard, helloCount |-> helloCount, wire |-> wire, bench |-> bench]

Idle == [kind |-> "none"]

\* handler o starts: nothing sent, emitted or thrown by it yet
BeginOn(c, o) ==
    [c EXCEPT !.out = << >>, !.events = << >>, !.thrown = FALSE, !.op = o,
              !.rcvd = << >>, !.dc = None, !.bench = Idle]
Begin(o) == BeginOn(Conn, o)

\* the fields of this connection after a handler
Assign(c) ==
    /\ variant' = c.variant
    /\ nonce' = c.nonce
    /\ pendingAck' = c.pendingAck
    /\ pendingPings' = c.pendingPings
    /\ lastPings' = c.lastPings
    /\ seenHello' = c.seenHello
    /\ pingTimer' = c.pingTimer
    /\ onceClose' = c.onceClose
    /\ sends' = c.sends
    /\ out' = c.out
    /\ events' = c.events
    /\ thrown' = c.thrown
    /\ op' = c.op
    /\ closeCount' = c.closeCount
    /\ shut' = c.shut
    /\ openAtClose' = c.openAtClose
    /\ copies' = c.copies
    /\ ackedEarly' = c.ackedEarly
    /\ rcvd' = c.rcvd
    /\ dc' = c.dc
    /\ heard' = c.heard
    /\ helloCount' = c.helloCount
    /\ wire' = c.wire
    /\ bench' = c.bench

\* a handler of this connection returns; no Server is involved
Install(c) == Assign(c) /\ UNCHANGED << server, client >>

\* Map<number, () => void> as the set of its entries [key, val], one per key
EmptyMap == {}
MapHas(m, k) == \E e \in m : e.key = k
MapGet(m, k) == (CHOOSE e \in m : e.key = k).val
MapDelete(m, k) == {e \in m : e.key # k}
MapSet(m, k, v) == MapDelete(m, k) \cup {[key |-> k, val |-> v]}

PingCompletion == [kind |-> "ping", slot |-> 0]
SendCompletion(s) == [kind |-> "send", slot |-> s]

Slots == 1..MaxSends
NoSend == [used |-> FALSE, nonce |-> 0, buf |-> << >>, attempts |-> 0,
           interval |-> FALSE, promise |-> "none"]

\* let bytes = -1 of the promise executor, with what the socket callbacks made of it:
\* done counts the callbacks run, from is the copy whose callback last set bytes,
\* value and valueFrom are bytes and from at the moment resolve(bytes) ran
NoBytes == -1
NoWire == [done |-> 0, bytes |-> NoBytes, from |-> 0, value |-> NoBytes, valueFrom |-> 0]

Event(name) == [name |-> name, forced |-> None, reason |-> None, message |-> None,
                tag |-> None, data |-> << >>]
CloseEvent(forced, reason, message) ==
    [Event("close") EXCEPT !.forced = forced, !.reason = reason, !.message = message]
HelloEvent(payload) == [Event("hello") EXCEPT !.data = payload]
MessageEvent(m) == [Event("message") EXCEPT !.tag = Some(m.tag), !.data = m.data]

Emit(c, ev) ==
    [c EXCEPT !.events = Append(@, ev),
              !.helloCount = IF ev.name = "hello" THEN Min(@ + 1, 2) ELSE @]
Throw(c) == [c EXCEPT !.thrown = TRUE]

\* socket.send(buf, port, address, cb): the datagram is handed to the socket
\* (copies counts it for the reliable send whose packet it is)
SendRaw(c, buf) ==
    [c EXCEPT !.out = Append(@, buf),
              !.copies = [s \in Slots |->
                            IF c.sends[s].used /\ c.sends[s].buf = buf
                            THEN @[s] + 1 ELSE @[s]]]

\* a counter that wraps after 65535 instead of 65534
GetNonceWide(c) == [c EXCEPT !.nonce = (@ + 1) % (NonceModulus + 1)]

GetNonce(c) == [c EXCEPT !.nonce = (@ + 1) % NonceModulus]

\* a close listener that also cancels every retry interval, settling nothing
CloseListenerCancelling(c) ==
    [c EXCEPT !.pingTimer = FALSE, !.pendingAck = EmptyMap,
              !.sends = [s \in Slots |-> [@[s] EXCEPT !.interval = FALSE]]]

\* the listener registered by this.once('close', ...) in the constructor
CloseListener(c) == [c EXCEPT !.pingTimer = FALSE, !.pendingAck = EmptyMap]

\* this.emit('close', ...): the once-listener runs on the first emission only,
\* the application's listeners on every emission
EmitClose(c, forced, reason, message) ==
    LET c1 == IF c.onceClose THEN [CloseListener(c) EXCEPT !.onceClose = FALSE] ELSE c
    IN  [Emit(c1, CloseEvent(forced, reason, message))
            EXCEPT !.closeCount = Min(@ + 1, 2),
                   !.shut = TRUE,
                   !.openAtClose = @ \cup {s \in Slots : c.sends[s].promise = "pending"}]

-----------------------------------------------------------------------------
(* Outbound packets *)

\* messages.forEach((message) => cursor += buf.writeHazelMessage(message, cursor))
RECURSIVE WriteMessages(_, _, _)
WriteMessages(buf, messages, cursor) ==
    IF messages = << >> THEN buf
    ELSE WriteMessages(WriteHazelMessage(buf, Head(messages), cursor), Tail(messages),
                       cursor + 3 + Len(Head(messages).data))

RECURSIVE MessagesLength(_, _)
MessagesLength(messages, start) ==
    IF messages = << >> THEN start
    ELSE MessagesLength(Tail(messages), start + Len(Head(messages).data) + 3)

\* sendNormal laying every record at the start of the record area
NormalPacketOverlaid(messages) ==
    LET buf == Alloc(MessagesLength(messages, 1))
    IN  WriteAt(buf, 0, << NORMAL >> \o (IF messages = << >> THEN << >>
                               ELSE UInt16BE(Len(messages[Len(messages)].data))
                                    \o << messages[Len(messages)].tag >>
                                    \o messages[Len(messages)].data))

NormalPacket(messages) ==
    LET buf == Alloc(MessagesLength(messages, 1))
    IN  WriteMessages(WriteAt(buf, 0, << NORMAL >>), messages, 1)

ReliablePacket(n, messages) ==
    LET buf == Alloc(MessagesLength(messages, 3))
        b1 == WriteAt(buf, 0, << RELIABLE >>)
        b2 == WriteAt(b1, 1, UInt16BE(n))
    IN  WriteMessages(b2, messages, 3)

PingPacket(n) ==
    WriteAt(WriteAt(Alloc(3), 0, << PING >>), 1, UInt16BE(n))

\* the selective-ack byte of sendAck: bit i-1 set iff pendingAck has no key nonce-i
RECURSIVE AckMask(_, _, _)
AckMask(pa, n, i) ==
    IF i > 8 THEN 0
    ELSE (IF MapHas(pa, n - i) THEN 0 ELSE 2 ^ (i - 1)) + AckMask(pa, n, i + 1)

AckPacket(pa, n) ==
    LET b1 == WriteAt(Alloc(4), 0, << ACKNOWLEDGEMENT >>)
        b2 == WriteAt(b1, 1, UInt16BE(n))
    IN  WriteAt(b2, 3, << AckMask(pa, n, 1) >>)

\* part_000 disconnect: writeByte and writeBoolean are both called without an
\* offset, and Buffer.writeUInt8 then writes at offset 0
ServerDisconnectPacket(force) ==
    LET b1 == WriteAt(Alloc(2), 0, << DISCONNECT >>)
    IN  WriteAt(b1, 0, << BoolByte(~force) >>)

\* server.ts disconnect, minimal form
ClientMinimalDisconnectPacket ==
    LET b1 == WriteAt(Alloc(2), 0, << DISCONNECT >>)
    IN  WriteAt(b1, 0, << BoolByte(TRUE) >>)

\* server.ts disconnect, form with a reason record; message is None or Some(bytes)
Truthy(message) == message # None /\ message[1] # << >>
ReasonLength(message) ==
    1 + (IF Truthy(message)
         THEN GetPackedUInt32Size(Len(message[1])) + Len(message[1]) ELSE 0)
ReasonBuf(reason, message) ==
    LET b1 == WriteAt(Alloc(ReasonLength(message)), 0, << reason >>)
    IN  IF Truthy(message) THEN WriteString(b1, message[1], 1).buf ELSE b1
ClientReasonDisconnectPacket(forced, reason, message) ==
    LET b1 == WriteAt(Alloc(5 + ReasonLength(message)), 0, << DISCONNECT >>)
        b2 == WriteAt(b1, 0, << BoolByte(~forced) >>)
    IN  WriteHazelMessage(b2, [tag |-> 0, data |-> ReasonBuf(reason, message)], 0)

-----------------------------------------------------------------------------
(* Connection methods, as functions from the connection before to the one after *)

\* part_000: async disconnect (force?: boolean)
DisconnectServer(c, force) ==
    SendRaw(EmitClose(c, None, None, None), ServerDisconnectPacket(force))

\* server.ts: async disconnect (forced = false, reason?, message?)
DisconnectClient(c, forced, reason, message) ==
    IF ~forced /\ reason # None
    THEN SendRaw(c, ClientReasonDisconnectPacket(forced, reason[1], message))
    ELSE SendRaw(EmitClose(c, Some(forced), reason, message),
                 ClientMinimalDisconnectPacket)

\* forced is None (argument omitted), Some(TRUE) or Some(FALSE)
Disconnect(c, forced, reason, message) ==
    LET c1 == [c EXCEPT !.shut = TRUE,
                        !.dc = Some([forced |-> forced, reason |-> reason,
                                     message |-> message])]
    IN  IF c.variant = "server"
        THEN DisconnectServer(c1, forced = Some(TRUE))
        ELSE DisconnectClient(c1, forced = Some(TRUE), reason, message)

SendAck(c, n) == SendRaw(c, AckPacket(c.pendingAck, n))

\* sendPing with the threshold tested one ping late
SendPingLateThreshold(c) ==
    IF c.pendingPings > MaxPendingPings
    THEN Disconnect(c, Some(TRUE), None, None)
    ELSE LET c1 == GetNonce(c)
             c2 == [c1 EXCEPT !.pendingAck = MapSet(@, c1.nonce, PingCompletion),
                              !.pendingPings = @ + 1]
         IN  SendRaw(c2, PingPacket(c1.nonce))

SendPing(c) ==
    IF c.pendingPings >= MaxPendingPings
    THEN Disconnect(c, Some(TRUE), None, None)
    ELSE LET c1 == GetNonce(c)
             c2 == [c1 EXCEPT !.pendingAck = MapSet(@, c1.nonce, PingCompletion),
                              !.pendingPings = @ + 1]
         IN  SendRaw(c2, PingPacket(c1.nonce))

\* get ping (): the sum of the samples over 5, kept exact as whole + fifths / 5
RECURSIVE SumSeq(_)
SumSeq(seq) == IF seq = << >> THEN 0 ELSE Head(seq) + SumSeq(Tail(seq))
Ping(ring) == [whole |-> SumSeq(ring) \div 5, fifths |-> SumSeq(ring) % 5]

\* a ping completion that pushes its sample without shifting the oldest out
PingAckedNoShift(c, rtt) ==
    [c EXCEPT !.pendingPings = @ - 1,
              !.lastPings = Append(@, rtt)]

\* the closure stored by sendPing; rtt is Date.now() - pingTime
PingAcked(c, rtt) ==
    [c EXCEPT !.pendingPings = @ - 1,
              !.lastPings = Append(Tail(@), rtt)]

\* the closure stored by sendReliable / sendRawReliable: clearInterval, resolve
SendAcked(c, s) ==
    [c EXCEPT !.sends[s].interval = FALSE,
              !.sends[s].promise = IF @ = "pending" THEN "resolved" ELSE @,
              !.wire[s].value = IF c.sends[s].promise = "pending" THEN c.wire[s].bytes ELSE @,
              !.wire[s].valueFrom = IF c.sends[s].promise = "pending" THEN c.wire[s].from ELSE @]

RunCompletion(c, comp, rtt) ==
    IF comp.kind = "ping" THEN PingAcked(c, rtt) ELSE SendAcked(c, comp.slot)

\* the setInterval callback of sendReliable / sendRawReliable
RetryInterval(c, s) ==
    IF c.sends[s].attempts = MaxAttempts
    THEN Disconnect([c EXCEPT !.sends[s].interval = FALSE,
                              !.sends[s].promise = IF @ = "pending" THEN "rejected" ELSE @],
                    Some(TRUE), None, None)
    ELSE [SendRaw(c, c.sends[s].buf) EXCEPT !.sends[s].attempts = @ + 1]

\* the callback of socket.send for the next copy of slot s's packet reports its byte
\* count: sendRaw resolves and send() stores it, bytes = await this.sendRaw(buf)
SendRawDone(c, s) ==
    [c EXCEPT !.wire[s].done = @ + 1,
              !.wire[s].bytes = Len(c.sends[s].buf),
              !.wire[s].from = c.wire[s].done + 1]

\* new Promise executor of sendReliable, for the call that takes slot s
SendReliable(c, s, messages) ==
    LET c1 == GetNonce(c)
        buf == ReliablePacket(c1.nonce, messages)
        c2 == [c1 EXCEPT !.sends[s] = [used |-> TRUE, nonce |-> c1.nonce, buf |-> buf,
                                       attempts |-> 0, interval |-> TRUE,
                                       promise |-> "pending"]]
        c3 == SendRaw(c2, buf)
    IN  [c3 EXCEPT !.pendingAck = MapSet(@, c1.nonce, SendCompletion(s))]

SendNormal(c, messages) == SendRaw(c, NormalPacket(messages))

\* while (cursor < msg.length) { readHazelMessage; cursor += 3 + data.length; emit }
RECURSIVE ReadRecords(_, _, _)
ReadRecords(c, msg, cursor) ==
    IF cursor >= Len(msg) THEN c
    ELSE IF ~CanReadHazelMessage(msg, cursor) THEN Throw(c)
    ELSE LET message == ReadHazelMessage(msg, cursor)
         IN  ReadRecords(Emit(c, MessageEvent(message)), msg,
                         cursor + 3 + Len(message.data))

\* handleMessagePacket accepting a HELLO although one was seen
HandleMessagePacketRepeatHello(c, msg, ack) ==
    LET cursor == IF ack THEN 3 ELSE 1
    IN  IF Len(msg) < cursor THEN Disconnect(c, Some(TRUE), None, None)
        ELSE LET c1 == IF ack THEN SendAck(c, ReadUInt16(msg, 1)) ELSE c
             IN  IF ReadByte(msg, 0) = HELLO
                 THEN IF Len(msg) < 4
                      THEN Disconnect(c1, Some(TRUE), None, None)
                      ELSE LET c2 == [c1 EXCEPT !.seenHello = TRUE]
                           IN  IF ReadByte(msg, 3) # HAZEL_VERSION
                               THEN Disconnect(c2, Some(TRUE), None, None)
                               ELSE Emit(c2, HelloEvent(Slice(msg, 4, Len(msg))))
                 ELSE ReadRecords(c1, msg, cursor)

\* handleMessagePacket accepting a HELLO of any version
HandleMessagePacketAnyVersion(c, msg, ack) ==
    LET cursor == IF ack THEN 3 ELSE 1
    IN  IF Len(msg) < cursor THEN Disconnect(c, Some(TRUE), None, None)
        ELSE LET c1 == IF ack THEN SendAck(c, ReadUInt16(msg, 1)) ELSE c
             IN  IF ReadByte(msg, 0) = HELLO
                 THEN IF c1.seenHello \/ Len(msg) < 4
                      THEN Disconnect(c1, Some(TRUE), None, None)
                      ELSE Emit([c1 EXCEPT !.seenHello = TRUE],
                                HelloEvent(Slice(msg, 4, Len(msg))))
                 ELSE ReadRecords(c1, msg, cursor)

\* handleMessagePacket taking the hello payload from the version byte on
HandleMessagePacketVersionInPayload(c, msg, ack) ==
    LET cursor == IF ack THEN 3 ELSE 1
    IN  IF Len(msg) < cursor THEN Disconnect(c, Some(TRUE), None, None)
        ELSE LET c1 == IF ack THEN SendAck(c, ReadUInt16(msg, 1)) ELSE c
             IN  IF ReadByte(msg, 0) = HELLO
                 THEN IF c1.seenHello \/ Len(msg) < 4
                      THEN Disconnect(c1, Some(TRUE), None, None)
                      ELSE LET c2 == [c1 EXCEPT !.seenHello = TRUE]
                           IN  IF ReadByte(msg, 3) # HAZEL_VERSION
                               THEN Disconnect(c2, Some(TRUE), None, None)
                               ELSE Emit(c2, HelloEvent(Slice(msg, 3, Len(msg))))
                 ELSE ReadRecords(c1, msg, cursor)

\* part_000 handleMessagePacket
HandleMessagePacketServer(c, msg, ack) ==
    LET cursor == IF ack THEN 3 ELSE 1
    IN  IF Len(msg) < cursor THEN Disconnect(c, Some(TRUE), None, None)
        ELSE LET c1 == IF ack THEN SendAck(c, ReadUInt16(msg, 1)) ELSE c
             IN  IF ReadByte(msg, 0) = HELLO
                 THEN IF c1.seenHello \/ Len(msg) < 4
                      THEN Disconnect(c1, Some(TRUE), None, None)
                      ELSE LET c2 == [c1 EXCEPT !.seenHello = TRUE]
                           IN  IF ReadByte(msg, 3) # HAZEL_VERSION
                               THEN Disconnect(c2, Some(TRUE), None, None)
                               ELSE Emit(c2, HelloEvent(Slice(msg, 4, Len(msg))))
                 ELSE ReadRecords(c1, msg, cursor)

\* server.ts handleMessagePacket
HandleMessagePacketClient(c, msg, ack) ==
    LET cursor == IF ack THEN 3 ELSE 1
    IN  IF Len(msg) < cursor THEN Disconnect(c, Some(TRUE), None, None)
        ELSE IF ReadByte(msg, 0) = HELLO THEN Disconnect(c, Some(TRUE), None, None)
        ELSE ReadRecords(IF ack THEN SendAck(c, ReadUInt16(msg, 1)) ELSE c, msg, cursor)

HandleMessagePacket(c, msg, ack) ==
    LET c0 == IF ack /\ Len(msg) >= 3 THEN [c EXCEPT !.heard = Append(@, msg)] ELSE c
    IN  IF c.variant = "server" THEN HandleMessagePacketServer(c0, msg, ack)
        ELSE HandleMessagePacketClient(c0, msg, ack)

\* server.ts handleMessage, case PacketType.DISCONNECT
HandleDisconnectClient(c, msg) ==
    IF Len(msg) = 1 THEN EmitClose(c, Some(TRUE), None, None)
    ELSE IF ~CanReadHazelMessage(msg, 2) THEN Throw(c)
    ELSE LET message == ReadHazelMessage(msg, 2).data
             forced == ~ReadBoolean(msg, 1)
         IN  IF Len(message) > 1
             THEN LET str == ReadString(message, 1)
                  IN  IF ~str.ok THEN Throw(c)
                      ELSE EmitClose(c, Some(forced), Some(ReadByte(message, 0)),
                                     Some(str.str))
             ELSE IF ~CanReadByte(message, 0) THEN Throw(c)
             ELSE EmitClose(c, Some(forced), Some(ReadByte(message, 0)), None)

\* an ACKNOWLEDGEMENT case that runs the completion and leaves its entry in the table
HandleAckKeeping(c, msg, rtt) ==
    IF Len(msg) >= 3 /\ MapHas(c.pendingAck, ReadUInt16(msg, 1))
    THEN RunCompletion(c, MapGet(c.pendingAck, ReadUInt16(msg, 1)), rtt)
    ELSE c

\* handleMessage, case PacketType.ACKNOWLEDGEMENT
HandleAck(c, msg, rtt) ==
    IF Len(msg) >= 3
    THEN LET id == ReadUInt16(msg, 1)
             c1 == [c EXCEPT !.ackedEarly = @ \cup
                        {s \in Slots : /\ c.sends[s].used
                                       /\ c.sends[s].nonce = id
                                       /\ c.sends[s].attempts = 0}]
         IN  IF MapHas(c1.pendingAck, id)
             THEN LET c2 == RunCompletion(c1, MapGet(c1.pendingAck, id), rtt)
                  IN  [c2 EXCEPT !.pendingAck = MapDelete(@, id)]
             ELSE c1
    ELSE c

\* handleMessage: the listener of the 'data' event
HandleMessage(c, msg, rtt) ==
    IF msg = << >> THEN c
    ELSE IF msg[1] = NORMAL THEN HandleMessagePacket(c, msg, FALSE)
    ELSE IF msg[1] \in {HELLO, RELIABLE} THEN HandleMessagePacket(c, msg, TRUE)
    ELSE IF msg[1] = DISCONNECT
         THEN IF c.variant = "server"
              THEN EmitClose([c EXCEPT !.rcvd = msg], None, None, None)
              ELSE HandleDisconnectClient([c EXCEPT !.rcvd = msg], msg)
    ELSE IF msg[1] = ACKNOWLEDGEMENT THEN HandleAck(c, msg, rtt)
    ELSE IF msg[1] = FRAGMENT THEN c
    ELSE IF msg[1] = PING
         THEN IF Len(msg) >= 3 THEN SendAck(c, ReadUInt16(msg, 1)) ELSE c
    ELSE c

-----------------------------------------------------------------------------
(* Inputs *)

Bye == << 98, 121, 101 >>

\* argument lists of sendReliable and sendNormal
ReliableArgs == { << [tag |-> 1, data |-> << >>] >> }
NormalArgs == { << [tag |-> 7, data |-> << 97, 98 >>], [tag |-> 9, data |-> << >>] >> }

\* arguments of disconnect: part_000 takes (force?), server.ts (forced?, reason?, message?)
DisconnectArgs(v) ==
    IF v = "server"
    THEN {[forced |-> f, reason |-> None, message |-> None] : f \in {None, Some(TRUE)}}
    ELSE {[forced |-> Some(TRUE), reason |-> None, message |-> None],
          [forced |-> None, reason |-> None, message |-> None],
          [forced |-> None, reason |-> Some(4), message |-> None],
          [forced |-> None, reason |-> Some(4), message |-> Some(Bye)]}

\* datagrams delivered to the 'data' sink
\* an ACK for every nonce a run can allocate, and for one it cannot (0)
AckDatagrams ==
    {<< ACKNOWLEDGEMENT >> \o UInt16BE(id) \o << 255 >> : id \in 0..(MaxSends + MaxPings)}
Inbound ==
    AckDatagrams \cup
    { << PING, 0, 5 >>,
      << RELIABLE, 0 >>,
      << DISCONNECT >>,
      << DISCONNECT, 1 >>,
      << DISCONNECT, 1, 0, 5, 0, 4, 3 >> \o Bye }

\* HELLO and RELIABLE datagrams: the handshake of the spec's walkthrough (nonce 1,
\* version 0, no payload), one with a payload, one with another version, one cut
\* before the version byte, and two reliable packets without records
HelloInbound ==
    { << HELLO, 0, 1, HAZEL_VERSION >>,
      << HELLO, 0, 2, HAZEL_VERSION, 7, 7 >>,
      << HELLO, 0, 1, HAZEL_VERSION + 1 >>,
      << HELLO, 0, 1 >>,
      << RELIABLE, 0, 1 >>,
      << RELIABLE, 0, 2 >> }

\* the datagrams that can settle a reliable send or close the connection
SettlingInbound == AckDatagrams \cup { << DISCONNECT >> }

\* Date.now() - pingTime, in ms, as observed by a ping's completion
RTTs == {10}

\* the round-trip times of the spec's walkthrough, and the ACKs of RttSpec's pings
RttSamples == {10, 20, 30, 40, 50}
RttAcks == {<< ACKNOWLEDGEMENT >> \o UInt16BE(id) \o << 255 >> : id \in 0..MaxRttPings}

-----------------------------------------------------------------------------
(* The state after construction, and one action per handler *)

\* a connection of class v whose counter stands at n, observed through b
InitFrom(v, n, b) ==
    /\ variant = v
    /\ nonce = n
    /\ pendingAck = EmptyMap
    /\ pendingPings = 0
    /\ lastPings = [i \in 1..PingRingSize |-> 0]
    /\ seenHello = FALSE
    /\ pingTimer = TRUE
    /\ onceClose = TRUE
    /\ sends = [s \in Slots |-> NoSend]
    /\ out = << >>
    /\ events = << >>
    /\ thrown = FALSE
    /\ op = "new"
    /\ closeCount = 0
    /\ shut = FALSE
    /\ openAtClose = {}
    /\ copies = [s \in Slots |-> 0]
    /\ ackedEarly = {}
    /\ rcvd = << >>
    /\ dc = None
    /\ heard = << >>
    /\ helloCount = 0
    /\ wire = [s \in Slots |-> NoWire]
    /\ bench = b
    /\ server = [connections |-> EmptyMap, open |-> TRUE]
    /\ client = [connected |-> FALSE, hellos |-> {}, events |-> << >>, error |-> FALSE]

InitAs(v) == InitFrom(v, 0, Idle)

\* the application calls sendNormal(...messages)
SendNormalCall ==
    \E messages \in NormalArgs :
        /\ messages \in NormalArgs
        /\ Install(SendNormal(Begin("sendNormal"), messages))

\* the application calls sendReliable(...messages); the call takes the next free slot;
\* at most limit calls are made in a run
SendReliableCall(limit) ==
    \E s \in Slots, messages \in ReliableArgs :
        /\ s <= limit
        /\ ~sends[s].used
        /\ \A t \in Slots : t < s => sends[t].used
        /\ Install(SendReliable(Begin("sendReliable"), s, messages))

\* the application calls disconnect(...)
DisconnectCall ==
    \E a \in DisconnectArgs(variant) :
        /\ a \in DisconnectArgs(variant)
        /\ Install(Disconnect(Begin("disconnect"), a.forced, a.reason, a.message))

\* the 300 ms interval of the send in slot s fires
RetryTick(s) ==
    /\ sends[s].interval
    /\ Install(RetryInterval(Begin("retry"), s))

\* the 1500 ms pingTimer fires; at most cap PINGs are sent in a run
PingsSent == nonce - Cardinality({s \in Slots : sends[s].used})
PingTick(cap) ==
    /\ pingTimer
    /\ pendingPings < MaxPendingPings => PingsSent < cap
    /\ Install(SendPing(Begin("ping")))

\* a datagram reaches the 'data' sink
Receive(datagrams) ==
    \E msg \in datagrams, rtt \in RTTs :
        /\ msg \in datagrams
        /\ Install(HandleMessage(Begin("data"), msg, rtt))

\* the socket reports the completion of a send of slot s's packet (in sending order)
SocketCallback(s) ==
    /\ wire[s].done < copies[s]
    /\ Install(SendRawDone(Begin("sent"), s))

\* an ACK reaches the 'data' sink some round-trip time after the ping it answers
AckArrives ==
    \E msg \in RttAcks, rtt \in RttSamples :
        /\ msg \in RttAcks
        /\ Install(HandleMessage(Begin("data"), msg, rtt))

\* a HELLO or RELIABLE datagram reaches the 'data' sink; at most limit of them in a run
Hear(limit) ==
    \E msg \in HelloInbound, rtt \in RTTs :
        /\ Len(heard) < limit
        /\ Install(HandleMessage(Begin("data"), msg, rtt))

Next ==
    \/ SendNormalCall
    \/ SendReliableCall(MaxSends)
    \/ DisconnectCall
    \/ \E s \in Slots : RetryTick(s)
    \/ PingTick(MaxPings)
    \/ Receive(Inbound)

\* the Connection of part_000 (hosted by Server)
Init == InitAs("server")
Spec == Init /\ [][Next]_vars

\* the Connection of server.ts (used by Client)
ClientInit == InitAs("client")
ClientSpec == ClientInit /\ [][Next]_vars

\* Reliable sends alone, with every way to close but the ping threshold (which
\* closes by the same disconnect(true) as a forced DisconnectCall), and with the
\* event loop running every retry interval that is still active.
FairSlots == 1..MaxFairSends
FairNext ==
    \/ SendReliableCall(MaxFairSends)
    \/ DisconnectCall
    \/ \E s \in FairSlots : RetryTick(s)
    \/ Receive(SettlingInbound)
Fairness == \A s \in FairSlots : WF_vars(RetryTick(s))
FairSpec == Init /\ [][FairNext]_vars /\ Fairness

\* The ping timer alone, long enough to reach the pending-ping threshold.
PingNext ==
    \/ PingTick(MaxPendingPings + 1)
    \/ DisconnectCall
    \/ Receive(Inbound)
PingSpec == Init /\ [][PingNext]_vars

\* The handshake: inbound HELLO/RELIABLE datagrams, with the connection's own pings
\* outstanding or not, and with disconnect().
HelloNext ==
    \/ Hear(MaxHeard)
    \/ PingTick(MaxPings)
    \/ DisconnectCall
HelloSpec == Init /\ [][HelloNext]_vars

\* The ping timer with its ACKs arriving after any of the sampled round-trip times,
\* among the other things a connection does.
RttNext ==
    \/ PingTick(MaxRttPings)
    \/ AckArrives
    \/ SendNormalCall
    \/ DisconnectCall
RttSpec == Init /\ [][RttNext]_vars

\* Reliable sends with the socket's completion callbacks as steps of their own.
SocketNext ==
    \/ SendReliableCall(MaxFairSends)
    \/ \E s \in FairSlots : RetryTick(s)
    \/ \E s \in FairSlots : SocketCallback(s)
    \/ Receive(SettlingInbound)
SocketSpec == Init /\ [][SocketNext]_vars

-----------------------------------------------------------------------------
(* Observations used by the properties *)

HasClose(evs) == \E i \in DOMAIN evs : evs[i].name = "close"
HasPacket(dgrams, type) == \E i \in DOMAIN dgrams : dgrams[i] # << >> /\ dgrams[i][1] = type
Settled(s) == sends[s].promise \in {"resolved", "rejected"}

\* a pending promise keeps its retry interval, which has at most MaxAttempts ticks to go
PendingHasInterval ==
    \A s \in Slots :
        sends[s].promise = "pending" => sends[s].interval /\ sends[s].attempts <= MaxAttempts

HasHello(evs) == \E i \in DOMAIN evs : evs[i].name = "hello"
Last(seq) == seq[Len(seq)]
IsHello(d) == d # << >> /\ d[1] = HELLO
ValidHello(d) == IsHello(d) /\ Len(d) >= 4 /\ d[4] = HAZEL_VERSION
BadVersionHello(d) == IsHello(d) /\ Len(d) >= 4 /\ d[4] # HAZEL_VERSION
Hellos(log) == SelectSeq(log, IsHello)
\* this step handled one more HELLO/RELIABLE datagram: Last(heard')
HeardOne == Len(heard') = Len(heard) + 1

\* the nonces of the inbound reliable datagrams in log
InboundSeen(log) == {ReadUInt16(log[i], 1) : i \in DOMAIN log}
\* the selective-ack byte for nonce n, given the inbound nonces seen
RECURSIVE MissingMask(_, _, _)
MissingMask(seen, n, i) ==
    IF i > 8 THEN 0
    ELSE (IF (n - i) \in seen THEN 0 ELSE 2 ^ (i - 1)) + MissingMask(seen, n, i + 1)

\* this step ran the completion of an outstanding ping: an ACK took its entry out of
\* pendingAck (a close empties pendingAck without running anything)
PingAckedStep ==
    /\ op' = "data"
    /\ ~HasClose(events')
    /\ \E e \in pendingAck : e.val.kind = "ping" /\ e \notin pendingAck'

\* the ping threshold closes the connection (reached under PingSpec)
ThresholdClose == op = "ping" /\ pendingPings = MaxPendingPings /\ HasClose(events)

-----------------------------------------------------------------------------
\* C1: a reliable send that is never acknowledged hands exactly 10 datagrams to the
\* socket before its promise rejects: never an 11th copy, and 10 copies at rejection.
C1_ExactlyTenCopies ==
    \A s \in Slots :
        /\ copies[s] <= 10
        /\ sends[s].promise = "rejected" => copies[s] = 10

\* C2: a reliable send whose ACK reached the connection before its first retry tick
\* has had exactly one datagram handed to the socket, at every later moment.
C2_EarlyAckOneDatagram ==
    \A s \in ackedEarly : copies[s] = 1

\* C3: the connection emits 'close' at most once.
C3_AtMostOneClose == closeCount <= 1

\* C4: no reliable packet that was awaiting its ACK when the connection emitted
\* 'close' is handed to the socket again after that.
C4_NoRetransmitAfterClose ==
    [][\A s \in openAtClose : copies'[s] = copies[s]]_vars

\* C5: a reliable send whose promise was pending when the connection emitted 'close'
\* is rejected by that close: it is not pending in any state after it.
C5_PendingRejectedAtClose ==
    \A s \in openAtClose : sends[s].promise = "rejected"

\* C6: once 'close' has been emitted, no handler sends a datagram, emits an event or
\* adds an entry to pendingAck.
C6_ClosedIsTerminal ==
    [][closeCount > 0 =>
          /\ out' = << >>
          /\ events' = << >>
          /\ pendingAck' \subseteq pendingAck]_vars

\* C7: the step in which a reliable send's promise goes from pending to rejected
\* (its retry tick found the attempt cap reached) also emits 'close' and hands a
\* DISCONNECT datagram (first byte 0x09) to the socket.
C7_ExhaustionClosesAndDisconnects ==
    [][\A s \in Slots :
          (sends[s].promise = "pending" /\ sends'[s].promise = "rejected")
          => HasClose(events') /\ HasPacket(out', DISCONNECT)]_vars

\* C8: every sendReliable promise that is pending is eventually resolved or rejected,
\* whatever else happens to the connection (close included), when the event loop
\* keeps running the retry intervals that are still active.
C8_EverySendSettles ==
    \A s \in FairSlots : (sends[s].promise = "pending") ~> Settled(s)

\* C8 witness: a send that was pending when the connection closed has been rejected.
C8_Witness ==
    \E s \in openAtClose : closeCount > 0 /\ sends[s].promise = "rejected"

\* C9: every call of disconnect emits the local 'close' event.
C9_DisconnectEmitsClose ==
    op = "disconnect" => HasClose(events)

\* C10: once disconnect() has been called or 'close' has been emitted, no PING
\* datagram is handed to the socket.
C10_NoPingAfterClose ==
    [][shut => ~HasPacket(out', PING)]_vars

\* C11: the step that handles a second HELLO, the first HELLO having been valid,
\* emits 'close' and no 'hello', and exactly one 'hello' has been emitted by then;
\* seenHello, once TRUE, stays TRUE, and 'hello' is never emitted twice.
C11_SecondHelloCloses ==
    [][/\ seenHello => seenHello'
       /\ helloCount' <= 1
       /\ (/\ HeardOne
           /\ IsHello(Last(heard'))
           /\ Len(Hellos(heard)) = 1
           /\ ValidHello(Hellos(heard)[1]))
          => /\ HasClose(events')
             /\ ~HasHello(events')
             /\ helloCount' = 1
             /\ seenHello']_vars

\* C11 witness: two HELLOs handled, the first valid; the second closed the connection
C11_Witness ==
    /\ Len(Hellos(heard)) = 2
    /\ ValidHello(Hellos(heard)[1])
    /\ IsHello(Last(heard))
    /\ op = "data" /\ HasClose(events)
    /\ helloCount = 1

\* C12: the step that handles a HELLO whose version byte is not HAZEL_VERSION emits
\* 'close' and no 'hello'; and no step after such a HELLO emits 'hello'.
C12_VersionMismatchCloses ==
    [][/\ (HeardOne /\ BadVersionHello(Last(heard')))
          => HasClose(events') /\ ~HasHello(events')
       /\ (\E i \in DOMAIN heard : BadVersionHello(heard[i]))
          => helloCount' = helloCount]_vars

\* C12 witness: a first HELLO with another version closed the connection without 'hello'
C12_Witness ==
    /\ Len(heard) = 1 /\ BadVersionHello(heard[1])
    /\ op = "data" /\ HasClose(events)
    /\ helloCount = 0

\* C13: the ACK sent for an inbound reliable nonce N carries the mask whose bit i-1 is
\* set exactly when N-i is not among the inbound reliable nonces received before;
\* the connection's own outstanding sends and pings play no part.
C13_MaskFromInboundNonces ==
    [][HeardOne =>
          LET n == ReadUInt16(Last(heard'), 1)
          IN  \A i \in DOMAIN out' :
                  out'[i][1] = ACKNOWLEDGEMENT =>
                      out'[i] = << ACKNOWLEDGEMENT >> \o UInt16BE(n)
                                    \o << MissingMask(InboundSeen(heard), n, 1) >>]_vars

\* C14: the step that handles a first HELLO of length >= 4 with the protocol version
\* hands exactly one datagram to the socket, the ACK [0x0A, N hi, N lo, mask] (mask
\* 0xFF for N = 1), emits exactly 'hello' with the bytes from offset 4 on, and emits
\* no 'close'.
C14_FirstHelloAccepted ==
    [][(heard = << >> /\ HeardOne /\ ValidHello(Last(heard')))
          => LET h == Last(heard')
                 n == ReadUInt16(h, 1)
             IN  /\ Len(out') = 1
                 /\ Len(out'[1]) = 4
                 /\ SubSeq(out'[1], 1, 3) = << ACKNOWLEDGEMENT >> \o UInt16BE(n)
                 /\ n = 1 => out'[1] = << 10, 0, 1, 255 >>
                 /\ events' = << HelloEvent(Slice(h, 4, Len(h))) >>
                 /\ closeCount' = closeCount
                 /\ seenHello']_vars

\* C14 witness: the handshake of the walkthrough: HELLO nonce 1, ACK [0x0A,0,1,0xFF]
C14_Witness ==
    /\ heard = << << HELLO, 0, 1, HAZEL_VERSION >> >>
    /\ out = << << 10, 0, 1, 255 >> >>
    /\ events = << HelloEvent(<< >>) >>
    /\ closeCount = 0

\* the forced DISCONNECT of the wire format
ForcedDisconnectBytes == << 9, 0 >>
\* the graceful DISCONNECT of the wire format, with its reason record
GracefulDisconnectBytes(reason, message) ==
    LET payload == << reason >> \o (IF message = None THEN << >>
                                    ELSE PackedBytes(Len(message[1])) \o message[1])
    IN  << 9, 1 >> \o UInt16BE(Len(payload)) \o << 0 >> \o payload
\* the close event an inbound DISCONNECT datagram d stands for
CloseFor(d) ==
    IF Len(d) = 1 THEN CloseEvent(Some(TRUE), None, None)
    ELSE IF Len(d) < 5 THEN CloseEvent(Some(d[2] # 1), None, None)
    ELSE LET rec == ReadHazelMessage(d, 2).data
         IN  CloseEvent(Some(d[2] # 1),
                        IF rec = << >> THEN None ELSE Some(rec[1]),
                        IF Len(rec) > 1 THEN Some(ReadString(rec, 1).str) ELSE None)

\* C15: a handler that called disconnect(true) (the application, the retry interval at
\* its cap, the ping timer at its threshold, a protocol error) has handed the two bytes
\* [0x09, 0x00] to the socket as its last datagram.
C15_ForcedDisconnectOnWire ==
    (dc # None /\ dc[1].forced = Some(TRUE))
    => out # << >> /\ Last(out) = ForcedDisconnectBytes

\* C16: disconnect(false, r, m) hands exactly one datagram to the socket:
\* [0x09, 0x01], then the record (u16 BE length, tag 0) whose payload is r followed by
\* the packed length of m and the bytes of m.
C16_GracefulDisconnectOnWire ==
    (dc # None /\ dc[1].forced # Some(TRUE) /\ dc[1].reason # None /\ dc[1].message # None)
    => out = << GracefulDisconnectBytes(dc[1].reason[1], dc[1].message) >>

\* C17: the handler of an inbound DISCONNECT datagram emits exactly one event, the
\* 'close' that the datagram stands for: forced for length 1, forced = (byte 1 is not 1)
\* otherwise, with reason and message only if a reason record follows.
C17_InboundDisconnectCloses ==
    rcvd # << >> => events = << CloseFor(rcvd) >>

\* C18: pendingPings stays in 0..10; the ping tick that finds 10 pings outstanding
\* sends no PING, emits 'close' and leaves the count alone; an ACK for an outstanding
\* ping lowers the count by exactly one.
C18_PendingPingsBounded ==
    [][/\ pendingPings' \in 0..10
       /\ (op' = "ping" /\ pendingPings = 10)
          => /\ ~HasPacket(out', PING)
             /\ HasClose(events')
             /\ pendingPings' = pendingPings
       /\ PingAckedStep => pendingPings' = pendingPings - 1]_vars

\* C18 witness: the tick at the threshold has closed the connection with 10 outstanding
C18_Witness ==
    /\ op = "ping" /\ pendingPings = 10
    /\ HasClose(events) /\ ~HasPacket(out, PING)

\* C19: lastPings starts as five zeros and always holds five samples; the step that
\* runs a ping's completion drops the oldest sample and appends the round-trip time
\* it measured; no other step changes lastPings; and ping is the sum over 5, which is
\* 30 for the samples 10, 20, 30, 40, 50.
C19_RingOfFive ==
    /\ lastPings = << 0, 0, 0, 0, 0 >>
    /\ [][/\ Len(lastPings') = 5
          /\ PingAckedStep
             => /\ SubSeq(lastPings', 1, 4) = SubSeq(lastPings, 2, 5)
                /\ lastPings'[5] \in RttSamples
          /\ ~PingAckedStep => lastPings' = lastPings
          /\ 5 * Ping(lastPings').whole + Ping(lastPings').fifths
                = lastPings'[1] + lastPings'[2] + lastPings'[3] + lastPings'[4] + lastPings'[5]
          /\ lastPings' = << 10, 20, 30, 40, 50 >>
             => Ping(lastPings') = [whole |-> 30, fifths |-> 0]]_vars

\* C19 witness: five pings acknowledged after 10, 20, 30, 40, 50 ms; ping is 30
C19_Witness ==
    /\ lastPings = << 10, 20, 30, 40, 50 >>
    /\ Ping(lastPings) = [whole |-> 30, fifths |-> 0]
    /\ op = "data"

\* C20: a sendReliable promise that is resolved was resolved with the byte count that
\* the socket reported for the first send of its packet: not with the initial -1 and
\* not with the count reported for a retransmission.
C20_ResolvedWithFirstSendBytes ==
    \A s \in Slots :
        sends[s].promise = "resolved"
        => /\ wire[s].value # NoBytes
           /\ wire[s].value = Len(sends[s].buf)
           /\ wire[s].valueFrom = 1

-----------------------------------------------------------------------------
(* The codec on its own: HazelBuffer's packed integers and strings *)

MaxPlain == 130   \* the integers 0..MaxPlain are packed, besides the group boundaries
MaxOffset == 1    \* the offsets 0..MaxOffset are written at

\* the last and first integer of each encoded length (2^31 - 1 is the largest
\* integer the checker represents)
PackedBoundaries ==
    {2^7 - 1, 2^7, 2^14 - 1, 2^14, 2^21 - 1, 2^21, 2^28 - 1, 2^28, 2147483647}
PackedInputs == (0..MaxPlain) \cup PackedBoundaries

\* strings as their UTF-8 bytes: "", "a", "bye", and one of 128 bytes
StringInputs == {<< >>, <<97>>, Bye, [i \in 1..128 |-> 97]}

CodecInputs ==
    {[kind |-> "int", int |-> n, offset |-> o] : n \in PackedInputs, o \in 0..MaxOffset}
    \cup {[kind |-> "string", str |-> t, offset |-> o] : t \in StringInputs, o \in 0..MaxOffset}

\* HazelBuffer.alloc(n).writePackedUInt32(int, offset), and getPackedUInt32Size(int)
WritePackedCall ==
    /\ bench.kind = "int"
    /\ LET w == WritePackedUInt32(Alloc(bench.offset + 5), bench.int, bench.offset)
       IN  Install([Conn EXCEPT !.bench =
               [kind |-> "packed", int |-> bench.int, offset |-> bench.offset,
                buf |-> w.buf, ret |-> w.ret, size |-> GetPackedUInt32Size(bench.int)]])

\* readPackedUInt32(offset) on the buffer just written
ReadPackedCall ==
    /\ bench.kind = "packed"
    /\ Install([Conn EXCEPT !.bench =
           [kind |-> "unpacked", int |-> bench.int,
            res |-> ReadPackedUInt32(bench.buf, bench.offset)]])

\* HazelBuffer.alloc(n).writeString(str, offset)
WriteStringCall ==
    /\ bench.kind = "string"
    /\ LET w == WriteString(Alloc(bench.offset + Len(bench.str) + 5), bench.str, bench.offset)
       IN  Install([Conn EXCEPT !.bench =
               [kind |-> "written", str |-> bench.str, offset |-> bench.offset,
                buf |-> w.buf, ret |-> w.ret]])

\* readString(offset) on the buffer just written
ReadStringCall ==
    /\ bench.kind = "written"
    /\ Install([Conn EXCEPT !.bench =
           [kind |-> "reread", str |-> bench.str,
            res |-> ReadString(bench.buf, bench.offset)]])

CodecNext ==
    \/ WritePackedCall
    \/ ReadPackedCall
    \/ WriteStringCall
    \/ ReadStringCall
CodecInit == \E b \in CodecInputs : InitFrom("server", 0, b)
CodecSpec == CodecInit /\ [][CodecNext]_vars

\* C21: every unsigned 32-bit integer written in the packed form reads back as itself,
\* the integers from 2^28 up (five bytes) included.
C21_PackedRoundTrip ==
    bench.kind = "unpacked" => bench.res = bench.int

\* C22: getPackedUInt32Size(n) is the number of bytes writePackedUInt32 stores for n
\* (1 below 2^7, 2 below 2^14, 3 below 2^21, 4 below 2^28, 5 otherwise), and the
\* write returns that same number.
C22_SizeIsBytesWritten ==
    bench.kind = "packed" =>
        /\ bench.size = Len(PackedBytes(bench.int))
        /\ bench.size \in 1..5
        /\ bench.ret = bench.size

\* C23: writeString stores the packed byte length, then the bytes of the text after
\* it, and returns the number of bytes it wrote; readString at the same offset
\* returns the text.
C23_StringRoundTrip ==
    /\ bench.kind = "written" =>
        LET prefix == PackedBytes(Len(bench.str))
        IN  /\ Slice(bench.buf, bench.offset, bench.offset + Len(prefix) + Len(bench.str))
                 = prefix \o bench.str
            /\ bench.ret = Len(prefix) + Len(bench.str)
    /\ bench.kind = "reread" => bench.res = [ok |-> TRUE, str |-> bench.str]

-----------------------------------------------------------------------------
(* Unreliable sends looped back into a connection *)

MaxRecords == 2   \* records per sendNormal call of RelaySpec

\* records with a payload of 2, 0, 1 and 256 bytes (the last needs both length bytes)
RecordInputs ==
    {[tag |-> 7, data |-> << 97, 98 >>], [tag |-> 9, data |-> << >>],
     [tag |-> 0, data |-> << 0 >>], [tag |-> 255, data |-> [i \in 1..256 |-> 1]]}
RecordLists == UNION {[1..n -> RecordInputs] : n \in 0..MaxRecords}

\* the application calls sendNormal(...messages)
SendRecords ==
    \E messages \in RecordLists :
        /\ messages \in RecordLists
        /\ LET c == SendNormal(Begin("sendNormal"), messages)
           IN  Install([c EXCEPT !.bench = [kind |-> "sendNormal", messages |-> messages,
                                            datagram |-> Last(c.out)]])

\* the datagram of the sendNormal just made reaches the 'data' sink of a connection
Deliver ==
    /\ bench.kind = "sendNormal"
    /\ Install([HandleMessage(Begin("data"), bench.datagram, 0)
                  EXCEPT !.bench = [kind |-> "delivered", messages |-> bench.messages,
                                    datagram |-> bench.datagram]])

RelayNext ==
    \/ SendRecords
    \/ Deliver
    \/ PingTick(MaxPings)
    \/ DisconnectCall
RelaySpec == Init /\ [][RelayNext]_vars

\* the records laid out one after the other: u16 length, tag, payload
RECURSIVE RecordBytes(_)
RecordBytes(messages) ==
    IF messages = << >> THEN << >>
    ELSE << Len(Head(messages).data) \div 256, Len(Head(messages).data) % 256,
            Head(messages).tag >> \o Head(messages).data \o RecordBytes(Tail(messages))

ExampleRecords == << [tag |-> 7, data |-> << 97, 98 >>], [tag |-> 9, data |-> << >>] >>

\* C24: the datagram of an unreliable send is the byte 0x00 followed by the records in
\* argument order, each as u16 big-endian payload length, tag, payload; a connection
\* that receives it emits one message event per record with the same tag and
\* payload, in that order ({7,"ab"},{9,""} travels as 00 00 02 07 61 62 00 00 09).
C24_NormalDatagramRoundTrip ==
    /\ bench.kind = "sendNormal" =>
        /\ out = << << 0 >> \o RecordBytes(bench.messages) >>
        /\ bench.messages = ExampleRecords => out = << << 0, 0, 2, 7, 97, 98, 0, 0, 9 >> >>
    /\ bench.kind = "delivered" =>
        /\ ~thrown
        /\ out = << >>
        /\ Len(events) = Len(bench.messages)
        /\ \A i \in DOMAIN events :
               /\ events[i].name = "message"
               /\ events[i].tag = << bench.messages[i].tag >>
               /\ events[i].data = bench.messages[i].data

C24_Witness ==
    /\ bench.kind = "delivered"
    /\ bench.messages = ExampleRecords
    /\ Len(events) = 2

-----------------------------------------------------------------------------
(* Server: one socket, one Connection per remote endpoint *)

\* remote endpoints, as `${remote.address}:${remote.port}`
Keys == {"10.0.0.1:1", "10.0.0.2:2"}

\* new Connection(remote, this.socket)
NewConnection ==
    [variant |-> "server", nonce |-> 0, pendingAck |-> EmptyMap, pendingPings |-> 0,
     lastPings |-> [i \in 1..PingRingSize |-> 0], seenHello |-> FALSE,
     pingTimer |-> TRUE, onceClose |-> TRUE, sends |-> [s \in Slots |-> NoSend],
     out |-> << >>, events |-> << >>, thrown |-> FALSE, op |-> "new", closeCount |-> 0,
     shut |-> FALSE, openAtClose |-> {}, copies |-> [s \in Slots |-> 0],
     ackedEarly |-> {}, rcvd |-> << >>, dc |-> None, heard |-> << >>,
     helloCount |-> 0, wire |-> [s \in Slots |-> NoWire], bench |-> Idle]

\* what the application's 'connection' listener does with the connection it is
\* handed: nothing (None), or a call of its disconnect(force?)
Listeners == {None} \cup {Some(a) : a \in DisconnectArgs("server")}

\* this.emit('connection', connection)
Published(c, listener) ==
    IF listener = None THEN c
    ELSE Disconnect(c, listener[1].forced, listener[1].reason, listener[1].message)

\* a close listener that leaves the entry in the map
HostedNeverEvicted(conns, key, c) == MapSet(conns, key, c)

\* connection.on('close', () => this.connections.delete(ip)), for a connection the
\* map holds under key after one of its handlers has run
Hosted(conns, key, c) ==
    IF HasClose(c.events) THEN MapDelete(conns, key) ELSE MapSet(conns, key, c)

NoSteps == << >>
Dropped(srv) == [server |-> srv, steps |-> NoSteps, out |-> << >>]

\* handleMessage creating a Connection whatever the first datagram of an endpoint is
ServerHandleMessageAnyFirst(srv, key, msg, listener, rtt) ==
    IF msg = << >> THEN Dropped(srv)
    ELSE LET create == ~MapHas(srv.connections, key)
             connection == Published(NewConnection, listener)
             conns == IF create THEN MapSet(srv.connections, key, connection)
                      ELSE srv.connections
             c == HandleMessage(BeginOn(MapGet(conns, key), "data"), msg, rtt)
         IN  [server |-> [srv EXCEPT !.connections = Hosted(conns, key, c)],
              steps |-> (IF create THEN << "new", "connection", "set", "on" >>
                         ELSE NoSteps) \o << "data" >>,
              out |-> (IF create THEN connection.out ELSE << >>) \o c.out]

\* Server.handleMessage(msg, remote): the server after it, the steps it took in order
\* ("new": a Connection constructed, "connection": the event published, "set": the
\* map entry written, "on": the close listener registered, "data": the datagram given
\* to the connection) and the datagrams sent meanwhile
ServerHandleMessage(srv, key, msg, listener, rtt) ==
    IF msg = << >> THEN Dropped(srv)
    ELSE LET create == ~MapHas(srv.connections, key) /\ msg[1] = HELLO
             connection == Published(NewConnection, listener)
             conns == IF create THEN MapSet(srv.connections, key, connection)
                      ELSE srv.connections
         IN  IF ~MapHas(conns, key) THEN Dropped(srv)
             ELSE LET c == HandleMessage(BeginOn(MapGet(conns, key), "data"), msg, rtt)
                  IN  [server |-> [srv EXCEPT !.connections = Hosted(conns, key, c)],
                       steps |-> (IF create THEN << "new", "connection", "set", "on" >>
                                  ELSE NoSteps) \o << "data" >>,
                       out |-> (IF create THEN connection.out ELSE << >>) \o c.out]

\* datagrams the socket hands to the server
ServerInbound ==
    { << >>,
      << HELLO, 0, 1, HAZEL_VERSION >>,
      << HELLO, 0, 1, HAZEL_VERSION + 1 >>,
      << HELLO >>,
      << RELIABLE, 0, 1 >>,
      << NORMAL, 0, 0, 7 >>,
      << PING, 0, 5 >>,
      << DISCONNECT >> }

\* the socket's 'message' event; an endpoint's connection hears at most MaxHeard
\* HELLO/RELIABLE datagrams
ServerReceive ==
    \E key \in Keys, msg \in ServerInbound, listener \in Listeners, rtt \in RTTs :
        /\ server.open
        /\ MapHas(server.connections, key) =>
               Len(MapGet(server.connections, key).heard) < MaxHeard
        /\ listener # None => ~MapHas(server.connections, key) /\ IsHello(msg)
        /\ LET r == ServerHandleMessage(server, key, msg, listener, rtt)
           IN  /\ server' = r.server
               /\ UNCHANGED client
               /\ Assign([Begin("message") EXCEPT !.bench =
                      [kind |-> "message", key |-> key, msg |-> msg,
                       known |-> MapHas(server.connections, key),
                       steps |-> r.steps, out |-> r.out]])

\* the application calls disconnect(force?) on a connection the server hosts
HostedDisconnect ==
    \E e \in server.connections, a \in DisconnectArgs("server") :
        /\ a \in DisconnectArgs("server")
        /\ LET c == Disconnect(BeginOn(e.val, "disconnect"), a.forced, a.reason, a.message)
           IN  /\ server' = [server EXCEPT !.connections = Hosted(@, e.key, c)]
               /\ UNCHANGED client
               /\ Assign([Begin("hosted") EXCEPT !.bench =
                      [kind |-> "disconnect", key |-> e.key]])

\* the pingTimer of a connection the server hosts fires
HostedPingTick ==
    \E e \in server.connections :
        /\ e.val.pingTimer
        /\ e.val.nonce < MaxPings
        /\ LET c == SendPing(BeginOn(e.val, "ping"))
           IN  /\ server' = [server EXCEPT !.connections = Hosted(@, e.key, c)]
               /\ UNCHANGED client
               /\ Assign([Begin("hosted") EXCEPT !.bench =
                      [kind |-> "ping", key |-> e.key]])

\* Server.close(): disconnect(true) on every connection of the map, each evicted by
\* its close listener, then socket.close()
ServerCloseCall ==
    /\ server.open
    /\ server' = [connections |->
                      {e \in server.connections :
                          ~HasClose(Disconnect(BeginOn(e.val, "disconnect"),
                                               Some(TRUE), None, None).events)},
                  open |-> FALSE]
    /\ UNCHANGED client
    /\ Assign([Begin("close") EXCEPT !.bench = [kind |-> "close"]])

ServerNext ==
    \/ ServerReceive
    \/ HostedDisconnect
    \/ HostedPingTick
    \/ ServerCloseCall
ServerSpec == Init /\ [][ServerNext]_vars

\* C25: a non-empty datagram from an endpoint without a map entry opens exactly one
\* connection if its first byte is HELLO: the connection is constructed, published by
\* a connection event, registered under the endpoint and then given the datagram.
\* Any other datagram from such an endpoint, and every empty datagram, is dropped:
\* no connection, no event, nothing sent, the map as it was.  The map holds at most
\* one connection per endpoint.
C25_HelloOpensOneConnection ==
    [][bench'.kind = "message" =>
        /\ (~bench'.known /\ IsHello(bench'.msg)) =>
               bench'.steps = << "new", "connection", "set", "on", "data" >>
        /\ (bench'.msg = << >> \/ (~bench'.known /\ ~IsHello(bench'.msg))) =>
               /\ bench'.steps = NoSteps
               /\ bench'.out = << >>
               /\ server' = server
        /\ \A e1, e2 \in server'.connections : e1.key = e2.key => e1 = e2
    ]_vars

C25_Witness ==
    /\ bench.kind = "message"
    /\ ~bench.known
    /\ IsHello(bench.msg)
    /\ MapHas(server.connections, bench.key)
    /\ Cardinality(server.connections) = 2

\* C26: no connection that has emitted close is in the server's map, whether the close
\* came from a disconnect() inside the application's connection listener, from the
\* endpoint's first datagram, or later.
C26_ClosedConnectionsEvicted ==
    \A e \in server.connections : e.val.closeCount = 0

-----------------------------------------------------------------------------
(* The nonce counter, from a fresh connection and from one about to wrap *)

MaxWrap == 4   \* nonces left before the counter wraps, in the runs that start late

NonceStarts == {0, NonceModulus - 1 - MaxWrap}

\* Client.connect(msg?): the HELLO packet
HelloPacket(n, payload) ==
    LET b0 == WriteAt(Alloc(4 + Len(payload)), 0, << HELLO >>)
        b1 == WriteAt(b0, 1, UInt16BE(n))
        b2 == WriteAt(b1, 3, << HAZEL_VERSION >>)
    IN  WriteAt(b2, 4, payload)

\* server.ts sendRawReliable(data, nonce), as the call in slot s
SendRawReliable(c, s, data, n) ==
    LET c1 == [c EXCEPT !.sends[s] = [used |-> TRUE, nonce |-> n, buf |-> data,
                                      attempts |-> 0, interval |-> TRUE,
                                      promise |-> "pending"]]
    IN  [SendRaw(c1, data) EXCEPT !.pendingAck = MapSet(@, n, SendCompletion(s))]

\* Client.connect(msg?), before any HELLO has been acknowledged
Connect(c, s, payload) ==
    LET c1 == GetNonce(c)
    IN  SendRawReliable(c1, s, HelloPacket(c1.nonce, payload), c1.nonce)

\* the application calls Client.connect(msg?); the call takes the next free slot
ConnectCall(limit) ==
    \E s \in Slots, payload \in {<< >>, Bye} :
        /\ variant = "client"
        /\ s <= limit
        /\ ~sends[s].used
        /\ \A t \in Slots : t < s => sends[t].used
        /\ Install(Connect(Begin("connect"), s, payload))

NonceNext ==
    \/ SendReliableCall(MaxSends)
    \/ ConnectCall(MaxSends)
    \/ PingTick(NonceModulus)
NonceInit == \E v \in {"server", "client"}, n \in NonceStarts : InitFrom(v, n, Idle)
NonceSpec == NonceInit /\ [][NonceNext]_vars

\* the datagram of this step carries nonce n in bytes 1..2, big-endian
CarriesNonce(dgrams, n) ==
    /\ Len(dgrams) = 1
    /\ Len(dgrams[1]) >= 3
    /\ dgrams[1][2] = n \div 256
    /\ dgrams[1][3] = n % 256

\* C27: the first nonce a connection issues is 1; every reliable send, ping and client
\* HELLO carries the previous nonce plus one, 0 after 65534; 65535 is never issued.
C27_NonceSequence ==
    [][/\ (op' \in {"sendReliable", "connect"} \/ (op' = "ping" /\ HasPacket(out', PING))) =>
            /\ nonce' = IF nonce = 65534 THEN 0 ELSE nonce + 1
            /\ nonce' # 65535
            /\ (nonce = 0 /\ op = "new") => nonce' = 1
            /\ CarriesNonce(out', nonce')
       /\ nonce' # nonce => HasPacket(out', RELIABLE) \/ HasPacket(out', HELLO)
                              \/ HasPacket(out', PING)
    ]_vars

C27_Witness ==
    /\ nonce = 0
    /\ op = "ping"
    /\ out = << << PING, 0, 0 >> >>

-----------------------------------------------------------------------------
(* Inbound datagrams one by one: ACKs, cut headers, cut records *)

\* datagrams cut before the end of their header
ShortInbound ==
    { << RELIABLE >>, << RELIABLE, 0 >>, << HELLO >>, << HELLO, 0 >>, << HELLO, 0, 1 >>,
      << PING >>, << PING, 0 >>, << ACKNOWLEDGEMENT >>, << ACKNOWLEDGEMENT, 0 >> }

\* NORMAL and RELIABLE datagrams whose records are whole, are followed by one or two
\* stray bytes, or announce more payload than there is
RecordInbound ==
    { << NORMAL, 0, 1, 7, 9 >>,
      << NORMAL, 0, 0, 7, 5 >>,
      << NORMAL, 0, 0, 7, 5, 6 >>,
      << NORMAL, 5 >>,
      << NORMAL, 0, 5, 7, 1 >>,
      << RELIABLE, 0, 1, 0, 0, 7 >>,
      << RELIABLE, 0, 1, 0, 0, 7, 5 >> }

ProbeInbound == AckDatagrams \cup ShortInbound \cup RecordInbound

IsAck(d) == d # << >> /\ d[1] = ACKNOWLEDGEMENT /\ Len(d) >= 3

\* a datagram reaches the 'data' sink and is kept for inspection (had: it is an ACK
\* and pendingAck had an entry for its nonce)
Probe ==
    \E msg \in ProbeInbound, rtt \in RTTs :
        /\ Len(heard) < MaxHeard
        /\ Install([HandleMessage(Begin("data"), msg, rtt)
                      EXCEPT !.bench =
                          [kind |-> "data", msg |-> msg,
                           had |-> IsAck(msg) /\ MapHas(pendingAck, ReadUInt16(msg, 1))]])

ProbeNext ==
    \/ Probe
    \/ SendReliableCall(MaxFairSends)
    \/ PingTick(MaxPings)
    \/ DisconnectCall
ProbeSpec == Init /\ [][ProbeNext]_vars

\* C28: an inbound ACK whose nonce has no entry in pendingAck (never issued, or already
\* acknowledged) runs no completion and changes nothing: pendingPings, the ring, the
\* sends and the table stay as they are, nothing is sent, no event is emitted.  An
\* ACK that has an entry removes it, so a completion runs at most once per nonce.
C28_StrayAckChangesNothing ==
    [][(bench'.kind = "data" /\ IsAck(bench'.msg)) =>
        /\ ~MapHas(pendingAck', ReadUInt16(bench'.msg, 1))
        /\ ~MapHas(pendingAck, ReadUInt16(bench'.msg, 1)) =>
               /\ UNCHANGED << pendingAck, pendingPings, lastPings, sends, wire, nonce,
                               pingTimer, seenHello, closeCount >>
               /\ out' = << >>
               /\ events' = << >>
               /\ ~thrown'
    ]_vars

\* a second ACK for a reliable send already resolved arrives at an open connection
C28_Witness ==
    /\ bench.kind = "data"
    /\ IsAck(bench.msg)
    /\ ~bench.had
    /\ ReadUInt16(bench.msg, 1) \in 1..nonce
    /\ closeCount = 0
    /\ \E s \in Slots : /\ sends[s].used
                         /\ sends[s].nonce = ReadUInt16(bench.msg, 1)
                         /\ sends[s].promise = "resolved"

\* the datagram ends before the header of its type does
ShortOfHeader(d) ==
    /\ d # << >>
    /\ \/ d[1] \in {RELIABLE, HELLO, PING, ACKNOWLEDGEMENT} /\ Len(d) < 3
       \/ d[1] = HELLO /\ Len(d) < 4

HasMessage(evs) == \E i \in DOMAIN evs : evs[i].name = "message"

\* C29: a RELIABLE, HELLO, PING or ACK datagram of fewer than 3 bytes, and a HELLO of
\* fewer than 4, is a fatal protocol error: the connection is force-closed, no ACK is
\* sent for it and no hello or message event is emitted.
C29_ShortDatagramIsFatal ==
    (bench.kind = "data" /\ ShortOfHeader(bench.msg)) =>
        /\ HasClose(events)
        /\ dc = Some([forced |-> Some(TRUE), reason |-> None, message |-> None])
        /\ ~HasPacket(out, ACKNOWLEDGEMENT)
        /\ ~HasHello(events)
        /\ ~HasMessage(events)

\* the record loop, started at cursor, comes to a record it cannot read: fewer than
\* the 3 bytes of length and tag are left
RECURSIVE RecordLoopFails(_, _)
RecordLoopFails(d, cursor) ==
    IF cursor >= Len(d) THEN FALSE
    ELSE IF Len(d) - cursor < 3 THEN TRUE
    ELSE RecordLoopFails(d, cursor + 3 + Min(d[cursor + 1] * 256 + d[cursor + 2],
                                             Len(d) - cursor - 3))

\* C30: when decoding fails inside the record loop of a NORMAL or RELIABLE datagram
\* (one or two bytes left after the last whole record), the connection treats it as
\* a fatal protocol error and emits close; the error does not escape the handler.
C30_RecordErrorIsFatal ==
    /\ (bench.kind = "data" /\ bench.msg[1] = NORMAL /\ RecordLoopFails(bench.msg, 1)) =>
           ~thrown /\ HasClose(events)
    /\ (bench.kind = "data" /\ bench.msg[1] = RELIABLE /\ Len(bench.msg) >= 3
           /\ RecordLoopFails(bench.msg, 3)) =>
           ~thrown /\ HasClose(events)

-----------------------------------------------------------------------------
(* Client: one Connection of server.ts behind a connected flag *)

\* a call or callback of the client starts: nothing emitted by it, no error yet
ClientBegin == [client EXCEPT !.events = << >>, !.error = FALSE]

\* the constructor's proxies: connection.on('error' | 'close' | 'message', ... this.emit)
IsProxied(e) == e.name \in {"error", "close", "message"}

\* a client that takes itself for connected as soon as its HELLO is on the wire
SettleOnSend(cl, c) ==
    [cl EXCEPT !.connected = @ \/ \E s \in cl.hellos : c.sends[s].used,
               !.events = SelectSeq(c.events, IsProxied)]

\* the client after a handler that took the connection to c: the events proxied
\* while it ran, then promise.then(() => { this.connected = true;
\* this.emit('connected') }) for every connect() whose promise it resolved
Settle(cl, c) ==
    LET done == {s \in cl.hellos : /\ sends[s].promise = "pending"
                                   /\ c.sends[s].promise = "resolved"}
    IN  [cl EXCEPT !.connected = @ \/ done # {},
                   !.events = SelectSeq(c.events, IsProxied)
                                \o [i \in 1..Cardinality(done) |-> Event("connected")]]

ClientStep(cl, c) ==
    /\ Assign(c)
    /\ client' = Settle(cl, c)
    /\ UNCHANGED server

\* a failing call that has taken a nonce before it throws
ClientFailAfterNonce(o) ==
    /\ Assign(GetNonce(Begin(o)))
    /\ client' = [ClientBegin EXCEPT !.error = TRUE]
    /\ UNCHANGED server

\* throw new Error('Already connected!') at the top of connect() or disconnect()
ClientFail(o) ==
    /\ Assign(Begin(o))
    /\ client' = [ClientBegin EXCEPT !.error = TRUE]
    /\ UNCHANGED server

\* the application calls Client.connect(msg?); at most limit HELLOs are sent in a run
ClientConnectCall(limit) ==
    \E s \in Slots, payload \in {<< >>, Bye} :
        /\ variant = "client"
        /\ IF client.connected
           THEN /\ s = 1
                /\ payload = << >>
                /\ ClientFail("connect")
           ELSE /\ s <= limit
                /\ ~sends[s].used
                /\ \A t \in Slots : t < s => sends[t].used
                /\ ClientStep([ClientBegin EXCEPT !.hellos = @ \cup {s}],
                              Connect(Begin("connect"), s, payload))

\* the application calls Client.disconnect(forced?, reason?, message?)
ClientDisconnectCall ==
    \E a \in DisconnectArgs("client") :
        /\ variant = "client"
        /\ IF ~client.connected
           THEN /\ a.forced = None
                /\ a.reason = None
                /\ ClientFail("disconnect")
           ELSE ClientStep([ClientBegin EXCEPT !.connected = FALSE],
                           Disconnect(Begin("disconnect"), a.forced, a.reason, a.message))

\* the 300 ms interval of the HELLO in slot s fires
ClientRetryTick(s) ==
    /\ sends[s].interval
    /\ ClientStep(ClientBegin, RetryInterval(Begin("retry"), s))

\* a datagram reaches the 'data' sink of the client's connection
ClientReceive(datagrams) ==
    \E msg \in datagrams, rtt \in RTTs :
        /\ msg \in datagrams
        /\ ClientStep(ClientBegin,
               [HandleMessage(Begin("data"), msg, rtt)
                   EXCEPT !.bench =
                       [kind |-> "data", msg |-> msg,
                        had |-> IsAck(msg) /\ MapHas(pendingAck, ReadUInt16(msg, 1))]])

HandshakeNext ==
    \/ ClientConnectCall(MaxFairSends)
    \/ ClientDisconnectCall
    \/ \E s \in FairSlots : ClientRetryTick(s)
    \/ ClientReceive(SettlingInbound)
HandshakeSpec == ClientInit /\ [][HandshakeNext]_vars

HasConnected(evs) == \E i \in DOMAIN evs : evs[i].name = "connected"

\* this step handled an ACK carrying the nonce of a HELLO still awaiting it
HelloAcked ==
    /\ bench'.kind = "data"
    /\ IsAck(bench'.msg)
    /\ \E s \in client.hellos : /\ sends[s].nonce = ReadUInt16(bench'.msg, 1)
                               /\ sends[s].promise = "pending"
                               /\ sends'[s].promise = "resolved"

\* this step rejected the promise of a connect() for want of an ACK
HelloExhausted ==
    \E s \in client.hellos : sends[s].promise = "pending" /\ sends'[s].promise = "rejected"

\* C31: the client's connected flag turns true, and connected is emitted, only in a
\* step that handles an ACK carrying the nonce of its HELLO; the flag is false until
\* then; when the HELLO runs out of retransmits the promise of connect() rejects,
\* the flag stays as it was (false) and the connection is force-closed.
C31_ConnectedOnlyOnHelloAck ==
    /\ ~client.connected
    /\ [][/\ (~client.connected /\ client'.connected) => HelloAcked
          /\ HasConnected(client'.events) => HelloAcked
          /\ HelloAcked => client'.connected /\ HasConnected(client'.events)
          /\ HelloExhausted =>
                /\ client'.connected = client.connected
                /\ ~HasConnected(client'.events)
                /\ HasClose(events')
                /\ events'[1].forced = Some(TRUE)
       ]_vars

\* a connect() was acknowledged
C31_Witness ==
    /\ client.connected
    /\ HasConnected(client.events)
    /\ bench.kind = "data"
    /\ bench.had

\* C32: connect() on a client whose connected flag is true, and disconnect() on one
\* whose flag is false, fail with an error and change nothing: the nonce counter, the
\* pendingAck table, the sends and the connected flag stay as they are, no datagram
\* is sent and no event is emitted.
C32_MisuseChangesNothing ==
    [][/\ (op' = "connect" /\ client.connected) => client'.error
       /\ (op' = "disconnect" /\ ~client.connected) => client'.error
       /\ client'.error =>
             /\ UNCHANGED << nonce, pendingAck, sends, pendingPings, lastPings,
                             pingTimer, closeCount, wire >>
             /\ client'.connected = client.connected
             /\ client'.hellos = client.hellos
             /\ out' = << >>
             /\ events' = << >>
             /\ client'.events = << >>
    ]_vars

\* a connect() refused on a connected client whose connection has a nonce in use
C32_Witness ==
    /\ client.error
    /\ op = "connect"
    /\ client.connected
    /\ nonce > 0

\* C33: a server-side connection sends an ACK for a HELLO only if it accepts that HELLO
\* (the first one, at least 4 bytes, the right version): whenever its handler for a
\* HELLO has sent an ACK, it has emitted hello and has not closed.  (A client turns
\* connected on exactly that ACK, so this is what makes the two sides agree.)
C33_AckOnlyForAcceptedHello ==
    [][(HeardOne /\ IsHello(Last(heard')) /\ HasPacket(out', ACKNOWLEDGEMENT)) =>
          /\ HasHello(events')
          /\ ~HasClose(events')
    ]_vars

\* C34: when a RELIABLE datagram reaches a connection that has already handled the same
\* datagram (a retransmission after a lost or late ACK), it is acknowledged again and
\* its records are not emitted again.
C34_ReliableDeliveredOnce ==
    (/\ bench.kind = "data"
     /\ bench.msg[1] = RELIABLE
     /\ Len(bench.msg) >= 3
     /\ \E i \in 1..(Len(heard) - 1) : heard[i] = bench.msg) =>
        /\ HasPacket(out, ACKNOWLEDGEMENT)
        /\ ~HasMessage(events)

\* C35: a connection hosted by the server emits message only after it has emitted
\* hello: no record of a NORMAL or RELIABLE datagram reaches the application from an
\* endpoint whose HELLO was never accepted.
C35_MessageOnlyAfterHello ==
    \A e \in server.connections : HasMessage(e.val.events) => e.val.helloCount > 0

C35_Witness ==
    \E e \in server.connections :
        /\ HasMessage(e.val.events)
        /\ e.val.helloCount > 0
        /\ bench.kind = "message"
        /\ bench.key = e.key
        /\ bench.msg[1] = NORMAL

\* C36: the client's connected flag is false whenever its connection has emitted close
\* (after an inbound DISCONNECT, after retransmit exhaustion, after the ping
\* threshold), so that a connected client has an open connection and a closed one
\* accepts connect() again.
C36_ClosedMeansNotConnected ==
    closeCount > 0 => ~client.connected

====
